---- MODULE Spec2Model ----
(***************************************************************************)
(* State-machine model of app.py: a Flask relay that runs the OAuth2       *)
(* authorization-code flow against the Box API and proxies one folder      *)
(* read.  The model follows the token life cycle: box_auth, box_folder     *)
(* (requires_auth, refresh_access_token_if_needed, get_box_folder),        *)
(* refresh_oauth_credentials, set_oauth_credentials, get_token, logout.    *)
(*                                                                         *)
(* A Python dict is a function whose DOMAIN is the set of keys it holds.   *)
(* Time is counted in whole seconds.  The provider is the environment: it  *)
(* answers every token request and every folder request as it pleases.     *)
(***************************************************************************)
EXTENDS Integers, Sequences, FiniteSets, TLC

\* ---------------------------------------------------------------- bounds
MaxTime == 2        \* the clock runs over 0..MaxTime
MaxIssue == 3       \* token requests the provider answers to requests handled one at a time
MaxExtra == 0       \* the longest lifetime issued is the margin plus MaxExtra
MaxOverlap == 1     \* token requests the provider answers beyond MaxIssue, to overlapping requests

\* ------------------------------------------------------ program constants
ExpirationBuffer == 15     \* app.py:121, "15 second buffer"
Unauthorized == 401        \* app.py:76

Requests == {"r1", "r2"}   \* browser requests of the one session
Statuses == {200, Unauthorized}

\* ------------------------------------------------------------ Python data
EmptyDict == [k \in {} |-> 0]
Put(d, k, v) == (k :> v) @@ d
Has(d, k) == k \in DOMAIN d

\* requests' Response.json is None when the body is no JSON document
None == [none |-> TRUE]
IsNone(v) == Has(v, "none")

\* a JSON value of expires_in: a number, or something that is no number
Num(n) == [type |-> "int", val |-> n]
Str == [type |-> "str", val |-> 0]
IsNumber(v) == v.type = "int"

\* lifetimes the provider reports: around the buffer, and one hour
Lifetimes ==
    ((ExpirationBuffer - 1)..(ExpirationBuffer + MaxExtra)) \cup {3600}
ExpiresValues == {Num(n) : n \in Lifetimes} \cup {Str}
TokenKeys == {"access_token", "refresh_token", "expires_in"}

\* The JSON body the provider sends for the id-th token request at time t:
\* any subset of the three fields.  The id-th access token is id, a refresh
\* token issued with it is -id; "issue" stands for the rest of the raw body:
\* which exchange it is, and when.
TokenBody(id, t, keys, ev) ==
    [k \in keys \cup {"issue"} |->
        IF k = "expires_in" THEN ev
        ELSE IF k = "issue" THEN [id |-> id, at |-> t]
        ELSE IF k = "refresh_token" THEN 0 - id
        ELSE id]

TokenBodies(id, t) ==
    {TokenBody(id, t, keys, ev) :
        keys \in SUBSET TokenKeys, ev \in ExpiresValues}

\* a body as the token endpoint is meant to send it
Complete(body) ==
    /\ TokenKeys \subseteq DOMAIN body
    /\ IsNumber(body["expires_in"])

\* history: what kind of answer a token request got
AnswerKind(answer) ==
    IF IsNone(answer) THEN "not_json"
    ELSE IF ~ Has(answer, "expires_in") \/ ~ IsNumber(answer["expires_in"])
    THEN "no_expiry"
    ELSE IF ~ Complete(answer) THEN "no_token"
    ELSE "complete"

\* a body that answers a refresh without a new refresh token: it returns the
\* one that was presented
ReturnedBodies(id, t, kwargs) ==
    IF Has(kwargs, "refresh_token")
    THEN {[b EXCEPT !["refresh_token"] = kwargs["refresh_token"]] :
             b \in {x \in TokenBodies(id, t) : Complete(x)}}
    ELSE {}

\* everything the token endpoint can answer: a JSON body, or a body that is
\* no JSON
TokenAnswers(id, t, kwargs) ==
    TokenBodies(id, t) \cup ReturnedBodies(id, t, kwargs) \cup {None}

VARIABLES
    session,        \* flask.session: the dict of this browser client
    expiration_of,  \* history: the issue whose body session.oauth_expiration was computed from (0: none)
    now,            \* datetime.now(), in seconds
    issued,         \* how many token requests the provider has answered
    presented,      \* history: the refresh tokens presented to the provider, in order
    clean,          \* history: every token request so far got a complete body
    req             \* per request: position in its handler and its locals

vars == <<session, expiration_of, now, issued, presented, clean, req>>

\* ------------------------------------------------------- a request's frame
Idle == [pc |-> "idle", route |-> "none", stage |-> "none",
         kwargs |-> EmptyDict, oauth_response |-> EmptyDict,
         bearer_token |-> 0, api_response |-> EmptyDict,
         log |-> <<>>, outcome |-> "none", page_output |-> EmptyDict,
         had_credentials |-> FALSE, check |-> EmptyDict, answer |-> "none"]

\* positions at which the request runs local code (no time passes there)
LocalPcs == {"checked_auth", "refresh", "set_expiration", "set_credentials",
             "get_box_folder"}
\* positions at which the request waits for the network
WaitPcs == {"get_token", "requests_get"}

Finish(f, how) == [f EXCEPT !.pc = "done", !.outcome = how]

Init ==
    /\ session = EmptyDict
    /\ expiration_of = 0
    /\ now = 0
    /\ issued = 0
    /\ presented = <<>>
    /\ clean = TRUE
    /\ req = [r \in Requests |-> Idle]

\* ------------------------------------------------------------- helpers
Event(op, val) == [op |-> op, val |-> val]
Logged(f, op, val) == [f EXCEPT !.log = Append(@, Event(op, val))]

\* how many events of kind op the log holds
RECURSIVE Count(_, _)
Count(log, op) ==
    IF log = <<>> THEN 0
    ELSE (IF log[Len(log)].op = op THEN 1 ELSE 0)
         + Count(SubSeq(log, 1, Len(log) - 1), op)

\* token requests the handlers under way may still make
Reserved(f) ==
    IF f.pc \in {"idle", "done"} THEN 0
    ELSE IF f.route = "box_auth" THEN (IF f.pc = "get_token" THEN 1 ELSE 0)
    ELSE IF f.stage = "retry"
    THEN (IF f.pc \in {"refresh", "get_token"} THEN 1 ELSE 0)
    ELSE IF f.pc \in {"checked_auth", "refresh", "get_token"} THEN 2
    ELSE 1

RECURSIVE ReservedBy(_)
ReservedBy(rs) ==
    IF rs = {} THEN 0
    ELSE LET q == CHOOSE q \in rs : TRUE
         IN Reserved(req[q]) + ReservedBy(rs \ {q})

\* the provider still answers n more token requests, beyond those the
\* handlers under way may make
IssueBudget(n) == issued + ReservedBy(Requests) + n <= MaxIssue + MaxOverlap

\* the same for requests handled one at a time
SerialBudget(n) == issued + n <= MaxIssue

\* no other request of the session is being handled
Serial == \A q \in Requests : req[q].pc = "idle"

\* the frame a new request gets: a free one
FreeFrame == CHOOSE q \in Requests : req[q].pc = "idle"

\* history: whether the session holds a credential set
CredentialsHeld == Has(session, "oauth_credentials")

\* history: the session holds a credential set with all its fields
StoredComplete ==
    Has(session, "oauth_credentials") /\ Complete(session["oauth_credentials"])

\* history: the credential set the session holds (an empty dict: none)
StoredCredentials ==
    IF CredentialsHeld THEN session["oauth_credentials"] ELSE EmptyDict

\* mutant: the boundary counted as expired
oauth_credentials_are_expired_inclusive == now >= session["oauth_expiration"]

\* app.py:97-98
oauth_credentials_are_expired == now > session["oauth_expiration"]

\* mutant: the route left undecorated
requires_auth_skipped == TRUE

\* app.py:11-19: the guard of the folder route
requires_auth == "oauth_credentials" \in DOMAIN session

\* mutant: the buffer forgotten
token_expiration_unbuffered(oauth_response) ==
    now + oauth_response["expires_in"].val

\* app.py:119-121: the expiry instant of a body received now
token_expiration(oauth_response) ==
    now + (oauth_response["expires_in"].val - ExpirationBuffer)

\* ------------------------------------------------------------- the clock
Tick ==
    /\ now < MaxTime
    /\ \A q \in Requests : req[q].pc \notin LocalPcs
    /\ now' = now + 1
    /\ UNCHANGED <<session, expiration_of, issued, presented, clean, req>>

\* ------------------------------------------------------------- routes
\* app.py:27-30 with 11-19: GET /box-folder/<id>, up to the wrapper's entry
box_folder(r) ==
    /\ req[r].pc = "idle"
    /\ IF requires_auth
       THEN /\ IssueBudget(2)
            /\ req' = [req EXCEPT ![r] =
                   [Idle EXCEPT !.pc = "checked_auth", !.route = "box_folder",
                                !.had_credentials = CredentialsHeld]]
       ELSE req' = [req EXCEPT ![r] =
                   Finish([Idle EXCEPT !.route = "box_folder",
                                       !.had_credentials = CredentialsHeld],
                          "redirect_login")]
    /\ UNCHANGED <<session, expiration_of, now, issued, presented, clean>>

\* app.py:38-40 with 134-139: GET /box-auth?code=..., up to the token request
box_auth(r) ==
    /\ req[r].pc = "idle"
    /\ IssueBudget(1)
    /\ req' = [req EXCEPT ![r] =
           Logged([Idle EXCEPT !.pc = "get_token", !.route = "box_auth",
                               !.stage = "auth", !.answer = "pending",
                               !.had_credentials = CredentialsHeld,
                               !.kwargs = [grant_type |-> "authorization_code",
                                           code |-> 0]],
                  "token_request", 0)]
    /\ UNCHANGED <<session, expiration_of, now, issued, presented, clean>>

\* mutant: only the credential set is dropped, the expiry instant stays
logout_credentials_only(r) ==
    /\ req[r].pc = "idle"
    /\ session' = [k \in DOMAIN session \ {"oauth_credentials"} |-> session[k]]
    /\ req' = [req EXCEPT ![r] =
           Finish([Idle EXCEPT !.route = "logout",
                               !.had_credentials = CredentialsHeld],
                  "logged_out")]
    /\ UNCHANGED <<expiration_of, now, issued, presented, clean>>

\* mutant: the confirmation returned without session.clear()
logout_keeps_session(r) ==
    /\ req[r].pc = "idle"
    /\ req' = [req EXCEPT ![r] =
           Finish([Idle EXCEPT !.route = "logout",
                               !.had_credentials = CredentialsHeld],
                  "logged_out")]
    /\ UNCHANGED <<session, expiration_of, now, issued, presented, clean>>

\* app.py:54-57: GET /logout
logout(r) ==
    /\ req[r].pc = "idle"
    /\ session' = EmptyDict
    /\ expiration_of' = 0
    /\ req' = [req EXCEPT ![r] =
           Finish([Idle EXCEPT !.route = "logout",
                               !.had_credentials = CredentialsHeld],
                  "logged_out")]
    /\ UNCHANGED <<now, issued, presented, clean>>

\* the response leaves; the request's frame is gone
Respond(r) ==
    /\ req[r].pc = "done"
    /\ req' = [req EXCEPT ![r] = Idle]
    /\ UNCHANGED <<session, expiration_of, now, issued, presented, clean>>

\* ------------------------------------------ refresh_access_token_if_needed
\* mutant: the proactive check dropped
checked_auth_no_refresh(r) ==
    /\ req[r].pc = "checked_auth"
    /\ IF "oauth_expiration" \notin DOMAIN session
       THEN req' = [req EXCEPT ![r] = Finish(@, "KeyError")]
       ELSE req' = [req EXCEPT ![r] =
                [@ EXCEPT !.stage = "first",
                          !.check = [now |-> now,
                                     expiration |-> session["oauth_expiration"],
                                     complete |-> StoredComplete,
                                     held |-> StoredCredentials],
                          !.pc = "get_box_folder"]]
    /\ UNCHANGED <<session, expiration_of, now, issued, presented, clean>>

\* app.py:71-73: the wrapper's entry, the proactive check
checked_auth(r) ==
    /\ req[r].pc = "checked_auth"
    /\ IF "oauth_expiration" \notin DOMAIN session
       THEN req' = [req EXCEPT ![r] = Finish(@, "KeyError")]
       ELSE req' = [req EXCEPT ![r] =
                [@ EXCEPT !.stage = "first",
                          !.check = [now |-> now,
                                     expiration |-> session["oauth_expiration"],
                                     complete |-> StoredComplete,
                                     held |-> StoredCredentials],
                          !.pc = IF oauth_credentials_are_expired
                                 THEN "refresh" ELSE "get_box_folder"]]
    /\ UNCHANGED <<session, expiration_of, now, issued, presented, clean>>

\* app.py:101-107 with 134-139: read the stored refresh token, post the request
refresh_oauth_credentials(r) ==
    /\ req[r].pc = "refresh"
    /\ IF /\ "oauth_credentials" \in DOMAIN session
          /\ "refresh_token" \in DOMAIN session["oauth_credentials"]
       THEN LET refresh_token == session["oauth_credentials"]["refresh_token"]
            IN /\ req' = [req EXCEPT ![r] =
                   Logged([@ EXCEPT !.pc = "get_token",
                                    !.oauth_response = EmptyDict,
                                    !.answer = "pending",
                                    !.kwargs = [grant_type |-> "refresh_token",
                                                refresh_token |-> refresh_token]],
                          "token_request", refresh_token)]
               /\ presented' = Append(presented, refresh_token)
       ELSE /\ req' = [req EXCEPT ![r] = Finish(@, "KeyError")]
            /\ UNCHANGED presented
    /\ UNCHANGED <<session, expiration_of, now, issued, clean>>

\* app.py:139-140: the token endpoint answers, or the transport fails
get_token(r) ==
    /\ req[r].pc = "get_token"
    /\ issued < MaxIssue + MaxOverlap
    /\ issued' = issued + 1
    /\ \/ \E answer \in TokenAnswers(issued + 1, now, req[r].kwargs) :
             /\ req' = [req EXCEPT ![r] =
                    [@ EXCEPT !.pc = "set_expiration",
                              !.oauth_response = answer,
                              !.answer = AnswerKind(answer)]]
             /\ clean' = (clean /\ AnswerKind(answer) = "complete")
       \/ /\ req' = [req EXCEPT ![r] =
                 Finish([@ EXCEPT !.answer = "transport_failure"],
                        "ConnectionError")]
          /\ clean' = FALSE
    /\ UNCHANGED <<session, expiration_of, now, presented>>

\* mutant: a missing expires_in read as 0, .get('expires_in', 0)
set_oauth_expiration_default(r) ==
    /\ req[r].pc = "set_expiration"
    /\ LET oauth_response == req[r].oauth_response IN
       IF IsNone(oauth_response)
       THEN /\ req' = [req EXCEPT ![r] = Finish(@, "AttributeError")]
            /\ UNCHANGED <<session, expiration_of>>
       ELSE /\ session' = Put(session, "oauth_expiration",
                   now + (IF Has(oauth_response, "expires_in")
                          THEN oauth_response["expires_in"].val ELSE 0)
                       - ExpirationBuffer)
            /\ expiration_of' = oauth_response["issue"].id
            /\ req' = [req EXCEPT ![r].pc = "set_credentials"]
    /\ UNCHANGED <<now, issued, presented, clean>>

\* mutant: the credential set stored before the expiry instant is computed
set_oauth_expiration_after_store(r) ==
    /\ req[r].pc = "set_expiration"
    /\ LET oauth_response == req[r].oauth_response IN
       IF IsNone(oauth_response)
       THEN /\ req' = [req EXCEPT ![r] = Finish(@, "AttributeError")]
            /\ UNCHANGED <<session, expiration_of>>
       ELSE IF ~ Has(oauth_response, "expires_in")
               \/ ~ IsNumber(oauth_response["expires_in"])
       THEN /\ session' = Put(session, "oauth_credentials", oauth_response)
            /\ req' = [req EXCEPT ![r] = Finish(@, "TypeError")]
            /\ UNCHANGED expiration_of
       ELSE /\ session' = Put(session, "oauth_expiration",
                              token_expiration(oauth_response))
            /\ expiration_of' = oauth_response["issue"].id
            /\ req' = [req EXCEPT ![r].pc = "set_credentials"]
    /\ UNCHANGED <<now, issued, presented, clean>>

\* app.py:119-121: compute and store the expiry instant
set_oauth_expiration(r) ==
    /\ req[r].pc = "set_expiration"
    /\ LET oauth_response == req[r].oauth_response IN
       IF IsNone(oauth_response)
       THEN /\ req' = [req EXCEPT ![r] = Finish(@, "AttributeError")]
            /\ UNCHANGED <<session, expiration_of>>
       ELSE IF ~ Has(oauth_response, "expires_in")
               \/ ~ IsNumber(oauth_response["expires_in"])
       THEN /\ req' = [req EXCEPT ![r] = Finish(@, "TypeError")]
            /\ UNCHANGED <<session, expiration_of>>
       ELSE /\ session' = Put(session, "oauth_expiration",
                              token_expiration(oauth_response))
            /\ expiration_of' = oauth_response["issue"].id
            /\ req' = [req EXCEPT ![r].pc = "set_credentials"]
    /\ UNCHANGED <<now, issued, presented, clean>>

\* where set_oauth_credentials returns to: app.py:42, 75 and 78
AfterSet(f) ==
    IF f.stage = "auth" THEN Finish(f, "redirect_folder")
    ELSE [f EXCEPT !.pc = "get_box_folder"]

\* mutant: the refresh token of the first authorization kept on every store
set_oauth_credentials_keeps_refresh_token(r) ==
    /\ req[r].pc = "set_credentials"
    /\ session' = Put(session, "oauth_credentials",
                      IF /\ Has(session, "oauth_credentials")
                         /\ Has(session["oauth_credentials"], "refresh_token")
                         /\ Has(req[r].oauth_response, "refresh_token")
                      THEN [req[r].oauth_response EXCEPT !["refresh_token"] =
                               session["oauth_credentials"]["refresh_token"]]
                      ELSE req[r].oauth_response)
    /\ req' = [req EXCEPT ![r] =
           AfterSet(Logged(@, "set", req[r].oauth_response["issue"].id))]
    /\ UNCHANGED <<expiration_of, now, issued, presented, clean>>

\* app.py:122: store the credential set
set_oauth_credentials(r) ==
    /\ req[r].pc = "set_credentials"
    /\ session' = Put(session, "oauth_credentials", req[r].oauth_response)
    /\ req' = [req EXCEPT ![r] =
           AfterSet(Logged(@, "set", req[r].oauth_response["issue"].id))]
    /\ UNCHANGED <<expiration_of, now, issued, presented, clean>>

\* mutant: the bearer token read once, at the wrapper's entry
get_box_folder_cached(r) ==
    /\ req[r].pc = "get_box_folder"
    /\ IF "access_token" \in DOMAIN req[r].check.held
       THEN LET bearer_token == req[r].check.held["access_token"]
            IN req' = [req EXCEPT ![r] =
                   Logged([@ EXCEPT !.pc = "requests_get",
                                    !.bearer_token = bearer_token],
                          "folder_request", bearer_token)]
       ELSE req' = [req EXCEPT ![r] = Finish(@, "KeyError")]
    /\ UNCHANGED <<session, expiration_of, now, issued, presented, clean>>

\* app.py:85-93: read the bearer token, send the folder request
get_box_folder(r) ==
    /\ req[r].pc = "get_box_folder"
    /\ IF /\ "oauth_credentials" \in DOMAIN session
          /\ "access_token" \in DOMAIN session["oauth_credentials"]
       THEN LET bearer_token == session["oauth_credentials"]["access_token"]
            IN req' = [req EXCEPT ![r] =
                   Logged([@ EXCEPT !.pc = "requests_get",
                                    !.bearer_token = bearer_token],
                          "folder_request", bearer_token)]
       ELSE req' = [req EXCEPT ![r] = Finish(@, "KeyError")]
    /\ UNCHANGED <<session, expiration_of, now, issued, presented, clean>>

\* app.py:31-35: the page the folder route renders
page_output(api_response) ==
    [access_token |-> session["oauth_credentials"]["access_token"],
     api_response |-> api_response.json]

\* mutant: a 401 returned at once, without refresh and retry
AfterCall_no_retry(f, api_response) ==
    Finish([f EXCEPT !.api_response = api_response,
                     !.page_output = page_output(api_response)], "json")

\* mutant: refresh and retry as long as the answer is 401
AfterCall_unbounded(f, api_response) ==
    IF api_response.status_code = Unauthorized
    THEN [f EXCEPT !.api_response = api_response, !.answer = "none",
                   !.stage = "retry", !.pc = "refresh"]
    ELSE Finish([f EXCEPT !.api_response = api_response,
                          !.page_output = page_output(api_response)], "json")

\* mutant: the first answer followed by refresh and retry whatever its status
AfterCall_retry_always(f, api_response) ==
    IF f.stage = "first"
    THEN [f EXCEPT !.api_response = api_response, !.answer = "none",
                   !.stage = "retry", !.pc = "refresh"]
    ELSE IF /\ "oauth_credentials" \in DOMAIN session
            /\ "access_token" \in DOMAIN session["oauth_credentials"]
    THEN Finish([f EXCEPT !.api_response = api_response,
                          !.page_output = page_output(api_response)], "json")
    ELSE Finish([f EXCEPT !.api_response = api_response], "KeyError")

\* mutant: no reactive refresh in an invocation that refreshed proactively
AfterCall_single_refresh(f, api_response) ==
    IF /\ api_response.status_code = Unauthorized /\ f.stage = "first"
       /\ Count(f.log, "token_request") = 0
    THEN [f EXCEPT !.api_response = api_response, !.answer = "none",
                   !.stage = "retry", !.pc = "refresh"]
    ELSE IF /\ "oauth_credentials" \in DOMAIN session
            /\ "access_token" \in DOMAIN session["oauth_credentials"]
    THEN Finish([f EXCEPT !.api_response = api_response,
                          !.page_output = page_output(api_response)], "json")
    ELSE Finish([f EXCEPT !.api_response = api_response], "KeyError")

\* app.py:75-80 and 31-35: the wrapper's decision on an answer
AfterCall(f, api_response) ==
    IF api_response.status_code = Unauthorized /\ f.stage = "first"
    THEN [f EXCEPT !.api_response = api_response, !.answer = "none",
                   !.stage = "retry", !.pc = "refresh"]
    ELSE IF /\ "oauth_credentials" \in DOMAIN session
            /\ "access_token" \in DOMAIN session["oauth_credentials"]
    THEN Finish([f EXCEPT !.api_response = api_response,
                          !.page_output = page_output(api_response)], "json")
    ELSE Finish([f EXCEPT !.api_response = api_response], "KeyError")

\* app.py:93: the folder endpoint answers, or the transport fails
requests_get(r) ==
    /\ req[r].pc = "requests_get"
    /\ \/ \E status \in Statuses :
             LET api_response ==
                     [status_code |-> status,
                      json |-> [status |-> status,
                                bearer |-> req[r].bearer_token,
                                at |-> now]]
             IN req' = [req EXCEPT ![r] =
                    AfterCall(Logged(@, "folder_response", status), api_response)]
       \/ req' = [req EXCEPT ![r] = Finish(@, "ConnectionError")]
    /\ UNCHANGED <<session, expiration_of, now, issued, presented, clean>>

\* ------------------------------------------------------- specifications
Start(r) ==
    /\ Serial
    /\ r = FreeFrame
    /\ \/ box_folder(r) /\ (requires_auth => SerialBudget(2))
       \/ box_auth(r) /\ SerialBudget(1)
       \/ logout(r)

\* a request arrives while another one of the session may be under way: the
\* server handles requests in threads, and nothing in app.py holds a lock.
\* The browser authorizes a session that holds no credential set, and asks
\* for folders once it holds one.
Arrive(r) ==
    /\ req[r].pc = "idle"
    /\ r = FreeFrame
    /\ IF requires_auth THEN box_folder(r) ELSE Serial /\ box_auth(r)

Step(r) ==
    \/ checked_auth(r)
    \/ refresh_oauth_credentials(r)
    \/ get_token(r)
    \/ set_oauth_expiration(r)
    \/ set_oauth_credentials(r)
    \/ get_box_folder(r)
    \/ requests_get(r)
    \/ Respond(r)

Next ==
    \/ Tick
    \/ \E r \in Requests : Start(r)
    \/ \E r \in Requests : Step(r)

Spec == Init /\ [][Next]_vars

NextConc ==
    \/ \E r \in Requests : Arrive(r)
    \/ \E r \in Requests : Step(r)

\* requests of the session overlap, on the one session dict
SpecConc == Init /\ [][NextConc]_vars

\* a handler that can take a step takes one: the server runs every request it
\* has accepted, and every network call gets its answer or fails. The clock
\* stands still here: the wrapper reads it only for the check at its entry,
\* and both outcomes of that check occur through the lifetimes the provider
\* grants (one below the buffer is expired at once).
NextFair ==
    \/ \E r \in Requests : Start(r)
    \/ \E r \in Requests : Step(r)

FairSpec ==
    /\ Init /\ [][NextFair]_vars
    /\ \A r \in Requests : WF_vars(Step(r))

\* ------------------------------------------------- vocabulary of the claims
\* the kinds of the events a request has logged, in order
Ops(r) == [i \in 1..Len(req[r].log) |-> req[r].log[i].op]

\* r is a folder request that has passed the wrapper's expiry check
InWrapper(r) == req[r].route = "box_folder" /\ Has(req[r].check, "now")

\* the stored expiry instant was in the past when r entered the wrapper
ExpiredAtEntry(r) == req[r].check.now > req[r].check.expiration

\* network calls r has made
TokenRequests(r) == Count(req[r].log, "token_request")
FolderRequests(r) == Count(req[r].log, "folder_request")
Sets(r) == Count(req[r].log, "set")

\* outcomes that are a failure raised out of the handler
Raised == {"KeyError", "TypeError", "AttributeError", "ConnectionError"}

\* C1: a folder request of a session that holds no credential set ends in
\* the redirect to login, and has made no network call (no token request, no
\* folder request) and no store.
C1_NoCredentialsRedirect ==
    \A r \in Requests :
        (req[r].route = "box_folder" /\ ~ req[r].had_credentials)
        => /\ req[r].pc = "done"
           /\ req[r].outcome = "redirect_login"
           /\ req[r].log = <<>>

\* C1 witness: a session that was authorized and then lost its credentials
\* asks for a folder and is redirected.
C1_Witness ==
    \E r \in Requests :
        /\ req[r].route = "box_folder"
        /\ ~ req[r].had_credentials
        /\ req[r].outcome = "redirect_login"
        /\ issued >= 1

\* C2: when the stored expiry instant is in the past at the wrapper's entry,
\* then at the moment the protected call is first invoked exactly one token
\* request has been made and its body stored, the session holds exactly the
\* body that exchange returned, and the first folder request carries the
\* access token of that body.
C2_ProactiveRefreshFirst ==
    \A r \in Requests :
        (InWrapper(r) /\ ExpiredAtEntry(r))
        => /\ (req[r].pc = "get_box_folder" /\ req[r].stage = "first")
              => /\ Ops(r) = <<"token_request", "set">>
                 /\ session["oauth_credentials"] = req[r].oauth_response
                 /\ req[r].log[2].val = req[r].oauth_response["issue"].id
           /\ FolderRequests(r) >= 1
              => /\ SubSeq(Ops(r), 1, 3)
                      = <<"token_request", "set", "folder_request">>
                 /\ req[r].log[3].val = req[r].log[2].val

\* C2 witness: an expired session's folder request is about to make its first
\* protected call, after the refresh.
C2_Witness ==
    \E r \in Requests :
        /\ InWrapper(r) /\ ExpiredAtEntry(r)
        /\ req[r].pc = "requests_get" /\ req[r].stage = "first"
        /\ req[r].bearer_token = session["oauth_credentials"]["access_token"]
        /\ req[r].bearer_token >= 2

\* the first protected call of r was answered 401 although the stored expiry
\* instant was not in the past at the wrapper's entry
Reactive(r) ==
    /\ InWrapper(r) /\ ~ ExpiredAtEntry(r)
    /\ Len(req[r].log) >= 2
    /\ req[r].log[2] = Event("folder_response", Unauthorized)

\* C3 as stated, for the invocations that start from a complete credential
\* set: every invocation whose first call is answered 401 (tokens not
\* expired) ends with exactly one refresh exchange and exactly one retried
\* call made and with the retried call's result returned.
C3_AsStated ==
    \A r \in Requests :
        (Reactive(r) /\ req[r].check.complete /\ req[r].pc = "done")
        => /\ TokenRequests(r) = 1
           /\ FolderRequests(r) = 2
           /\ req[r].outcome = "json"

\* C3 amended: in such an invocation at most one refresh exchange and at most
\* one retried call are made, the retry only after the refresh was stored;
\* whenever the wrapper returns a result, exactly one refresh exchange and
\* exactly one retry were made, in that order, and the result is the retried
\* call's, also when it is again a 401; otherwise a failure is raised and no
\* result is returned.
C3_ReactiveRefreshOnce ==
    \A r \in Requests :
        Reactive(r)
        => /\ TokenRequests(r) <= 1
           /\ FolderRequests(r) <= 2
           /\ FolderRequests(r) = 2
              => SubSeq(Ops(r), 1, 5)
                   = <<"folder_request", "folder_response", "token_request",
                       "set", "folder_request">>
           /\ req[r].pc = "done"
              => \/ /\ req[r].outcome = "json"
                    /\ Ops(r) = <<"folder_request", "folder_response",
                                  "token_request", "set", "folder_request",
                                  "folder_response">>
                    /\ req[r].page_output.api_response.status = req[r].log[6].val
                    /\ req[r].page_output.api_response.bearer = req[r].log[5].val
                    /\ req[r].log[5].val = req[r].log[4].val
                 \/ /\ req[r].outcome \in Raised
                    /\ req[r].page_output = EmptyDict

\* C3 witness: the retried call is answered 401 again and that is returned.
C3_Witness ==
    \E r \in Requests :
        /\ Reactive(r)
        /\ req[r].outcome = "json"
        /\ FolderRequests(r) = 2 /\ TokenRequests(r) = 1
        /\ req[r].page_output.api_response.status = Unauthorized

\* C4: within one invocation of the wrapper the session's credential set is
\* stored at most twice and the protected call is sent at most twice, whatever
\* the provider answers.
C4_AtMostTwo ==
    \A r \in Requests :
        req[r].route = "box_folder"
        => /\ Sets(r) <= 2
           /\ TokenRequests(r) <= 2
           /\ FolderRequests(r) <= 2

\* C4 witness: an invocation with a proactive and a reactive refresh.
C4_Witness ==
    \E r \in Requests :
        /\ req[r].route = "box_folder"
        /\ Sets(r) = 2 /\ FolderRequests(r) = 2
        /\ req[r].pc = "done"

\* no request is between the two assignments of set_oauth_credentials
Settled == \A r \in Requests : req[r].pc # "set_credentials"

\* C5: outside the body of set_oauth_credentials the session holds either
\* neither field, or both, and then the expiry instant is the one computed
\* from the body that is the stored credential set.
C5_PairOfOneGeneration ==
    Settled
    => \/ /\ ~ Has(session, "oauth_credentials")
          /\ ~ Has(session, "oauth_expiration")
          /\ expiration_of = 0
       \/ /\ Has(session, "oauth_credentials")
          /\ Has(session, "oauth_expiration")
          /\ expiration_of = session["oauth_credentials"]["issue"].id

\* C5 witness: the pair has been replaced at least twice since the first
\* authorization, the last time by a refresh inside a folder request.
C5_Witness ==
    /\ Settled
    /\ Has(session, "oauth_credentials")
    /\ session["oauth_credentials"]["issue"].id >= 3
    /\ \E r \in Requests : req[r].route = "box_folder" /\ Sets(r) >= 1

\* C6: the stored expiry instant is the issue time of the stored credential
\* set plus its expires_in minus 15 seconds.
C6_ExpiryInstant ==
    (Settled /\ Has(session, "oauth_credentials"))
    => session["oauth_expiration"]
         = session["oauth_credentials"]["issue"].at
           + session["oauth_credentials"]["expires_in"].val - 15

\* C6 witness: a refresh at a time T > 0 with expires_in = 3600 left the
\* expiry instant T + 3585.
C6_Witness ==
    /\ Settled
    /\ Has(session, "oauth_credentials")
    /\ session["oauth_credentials"]["issue"].id >= 2
    /\ session["oauth_credentials"]["issue"].at >= 1
    /\ session["oauth_credentials"]["expires_in"].val = 3600
    /\ session["oauth_expiration"]
         = session["oauth_credentials"]["issue"].at + 3585

\* C7: the wrapper starts with a refresh exactly when the time of the check
\* is later than the stored expiry instant; at equality it goes straight to
\* the protected call.
C7_ExpiredIffLater ==
    \A r \in Requests :
        InWrapper(r)
        => LET later == req[r].check.now > req[r].check.expiration
               log == req[r].log
           IN /\ log # <<>>
                 => /\ (log[1].op = "token_request") <=> later
                    /\ (log[1].op = "folder_request") <=> ~ later
              /\ (log = <<>> /\ req[r].pc = "refresh") => later
              /\ (log = <<>> /\ req[r].pc = "get_box_folder") => ~ later

\* C7 witness: checked at exactly the expiry instant, the first thing the
\* invocation does is the protected call.
C7_Witness ==
    \E r \in Requests :
        /\ InWrapper(r)
        /\ req[r].check.now = req[r].check.expiration
        /\ Len(req[r].log) >= 1
        /\ req[r].log[1].op = "folder_request"

\* answers of the token endpoint that are a failed exchange
Failed == {"transport_failure", "not_json", "no_expiry", "no_token"}
\* those of them the code notices
Signalled == {"transport_failure", "not_json", "no_expiry"}

\* C8 as stated, for the invocations that start from a complete credential
\* set: when the proactive refresh exchange fails (transport
\* failure, no JSON, or a required field absent), the failure is raised to
\* the caller and no folder request is made in that invocation.
C8_AsStated ==
    \A r \in Requests :
        (InWrapper(r) /\ req[r].check.complete /\ req[r].stage = "first"
         /\ req[r].answer \in Failed)
        => /\ FolderRequests(r) = 0
           /\ req[r].pc = "done" => req[r].outcome \in Raised

\* C9 as stated: when the reactive refresh exchange fails, no further refresh
\* and no further protected call are made and the 401 of the first call is
\* returned to the caller.
C9_AsStated ==
    \A r \in Requests :
        (req[r].route = "box_folder" /\ req[r].stage = "retry"
         /\ req[r].answer \in Failed /\ req[r].pc = "done")
        => /\ FolderRequests(r) = 1
           /\ req[r].outcome = "json"
           /\ req[r].page_output.api_response.status = Unauthorized

\* C9 amended: after a failed reactive refresh exchange no further refresh is
\* made; when the failure is a transport failure, a body that is no JSON or a
\* body without a numeric expires_in, no further protected call is made
\* either, and the failure is raised to the caller: the 401 is not returned.
C9_ReactiveFailureRaised ==
    \A r \in Requests :
        (InWrapper(r) /\ req[r].stage = "retry" /\ req[r].answer \in Failed)
        => /\ TokenRequests(r) = (IF ExpiredAtEntry(r) THEN 2 ELSE 1)
           /\ req[r].log[Len(req[r].log)].op # "token_request"
              => req[r].answer = "no_token"
           /\ req[r].answer \in Signalled
              => /\ FolderRequests(r) = 1
                 /\ req[r].page_output = EmptyDict
                 /\ req[r].pc \in {"set_expiration", "done"}
                 /\ req[r].pc = "done"
                    => req[r].outcome
                         \in {"ConnectionError", "AttributeError", "TypeError"}

\* C9 witness: the first call was answered 401, the refresh body had no
\* expires_in, and the request ended in the TypeError.
C9_Witness ==
    \E r \in Requests :
        /\ InWrapper(r) /\ req[r].stage = "retry"
        /\ req[r].answer = "no_expiry"
        /\ req[r].pc = "done" /\ req[r].outcome = "TypeError"
        /\ FolderRequests(r) = 1
        /\ req[r].api_response.status_code = Unauthorized

\* C10 as stated: every credential set the session holds has an
\* access_token, a refresh_token and a numeric expires_in, and a token
\* exchange whose body lacks one of them ends in a failure.
C10_AsStated ==
    /\ Has(session, "oauth_credentials")
       => Complete(session["oauth_credentials"])
    /\ \A r \in Requests :
          (req[r].answer \in {"no_expiry", "no_token"} /\ req[r].pc = "done"
           /\ req[r].route = "box_auth")
          => req[r].outcome \in Raised

C12_ReportsLastCallToken ==
    \A r \in Requests :
        InWrapper(r)
        => LET log == req[r].log
               n == Len(log)
           IN /\ (req[r].pc = "done" /\ req[r].outcome = "json")
                 => /\ n >= 2
                    /\ log[n - 1].op = "folder_request"
                    /\ log[n].op = "folder_response"
                    /\ \A i \in 1..n :
                           log[i].op = "folder_request" => i <= n - 1
                    /\ req[r].page_output.access_token = log[n - 1].val
                    /\ req[r].page_output.api_response = req[r].api_response.json
                    /\ req[r].page_output.api_response.bearer = log[n - 1].val
                    /\ req[r].page_output.api_response.status = log[n].val
              /\ (/\ ~ ExpiredAtEntry(r)
                  /\ n >= 2
                  /\ log[2].op = "folder_response"
                  /\ log[2].val # Unauthorized)
                 => /\ req[r].pc = "done" /\ req[r].outcome = "json"
                    /\ Ops(r) = <<"folder_request", "folder_response">>
                    /\ TokenRequests(r) = 0 /\ FolderRequests(r) = 1
                    /\ req[r].page_output.access_token
                         = req[r].check.held["access_token"]

\* C12 witness: the first folder request after an authorization, with the
\* tokens of that authorization unexpired and the call answered 200, reports
\* the authorization's access token.
C12_Witness ==
    \E r \in Requests :
        /\ InWrapper(r) /\ ~ ExpiredAtEntry(r)
        /\ req[r].pc = "done" /\ req[r].outcome = "json"
        /\ req[r].check.complete
        /\ req[r].check.held["issue"].id = 1
        /\ TokenRequests(r) = 0 /\ FolderRequests(r) = 1
        /\ req[r].page_output.access_token = 1
        /\ req[r].page_output.api_response.status # Unauthorized

\* the stored expiry instant was in the past at r's entry, and the first
\* protected call, made after the proactive refresh, was answered 401
ProactiveThenUnauthorized(r) ==
    /\ InWrapper(r) /\ ExpiredAtEntry(r)
    /\ Len(req[r].log) >= 4
    /\ req[r].log[4] = Event("folder_response", Unauthorized)

\* the order refresh, call, refresh, call, each refresh with its store and
\* each call with its answer
RefreshCallRefreshCall ==
    <<"token_request", "set", "folder_request", "folder_response",
      "token_request", "set", "folder_request", "folder_response">>

IsPrefix(s, t) == Len(s) <= Len(t) /\ s = SubSeq(t, 1, Len(s))

\* C13 as stated, for the invocations that start from a complete credential
\* set and have sent the second token request: every such invocation ends
\* with the protected call retried, in the order refresh, call, refresh, call.
C13_AsStated ==
    \A r \in Requests :
        (/\ ProactiveThenUnauthorized(r) /\ req[r].check.complete
         /\ TokenRequests(r) = 2 /\ req[r].pc = "done")
        => /\ FolderRequests(r) = 2
           /\ Ops(r) = RefreshCallRefreshCall

\* C13 amended: in such an invocation what has been done is always an initial
\* part of refresh, call, refresh, call; after the second store the wrapper
\* goes to the retried call whatever the new expiry instant is; whenever the
\* wrapper returns a result the whole order has occurred and the result is
\* the retried call's, sent with the token of the second refresh; otherwise a
\* failure is raised and nothing is returned.
C13_RefreshCallRefreshCall ==
    \A r \in Requests :
        ProactiveThenUnauthorized(r)
        => /\ IsPrefix(Ops(r), RefreshCallRefreshCall)
           /\ (Sets(r) = 2 /\ req[r].pc # "done")
              => req[r].pc \in {"get_box_folder", "requests_get"}
           /\ FolderRequests(r) = 2 => req[r].log[7].val = req[r].log[6].val
           /\ req[r].pc = "done"
              => \/ /\ req[r].outcome = "json"
                    /\ Ops(r) = RefreshCallRefreshCall
                    /\ req[r].page_output.api_response.bearer = req[r].log[7].val
                    /\ req[r].page_output.api_response.status = req[r].log[8].val
                 \/ /\ req[r].outcome \in Raised
                    /\ req[r].page_output = EmptyDict

\* C13 witness: the second refresh brought tokens whose expiry instant was
\* already in the past when they were stored, and the retry was sent with
\* them all the same and its answer returned.
C13_Witness ==
    \E r \in Requests :
        /\ ProactiveThenUnauthorized(r)
        /\ req[r].pc = "done" /\ req[r].outcome = "json"
        /\ Ops(r) = RefreshCallRefreshCall
        /\ req[r].oauth_response["issue"].id = req[r].log[6].val
        /\ req[r].oauth_response["issue"].at
             + req[r].oauth_response["expires_in"].val - ExpirationBuffer
           < req[r].page_output.api_response.at

\* C14: a protected call in flight carries the access token the session
\* holds; the first call of an invocation that has not refreshed carries the
\* token held at entry, and a call that follows a refresh carries the access
\* token of the body that refresh stored, which is not the one held before.
C14_BearerIsStoredToken ==
    \A r \in Requests :
        InWrapper(r)
        => LET log == req[r].log
           IN /\ req[r].pc = "requests_get"
                 => /\ Has(session, "oauth_credentials")
                    /\ Has(session["oauth_credentials"], "access_token")
                    /\ req[r].bearer_token
                         = session["oauth_credentials"]["access_token"]
                    /\ log[Len(log)] = Event("folder_request", req[r].bearer_token)
              /\ \A i \in 1..Len(log) :
                     log[i].op = "folder_request"
                     => IF i = 1
                        THEN log[i].val = req[r].check.held["access_token"]
                        ELSE /\ log[i - 1].op = "set"
                             /\ log[i].val = log[i - 1].val
                             /\ \A j \in 1..(i - 1) :
                                    log[j].op = "folder_request"
                                    => log[j].val # log[i].val
                             /\ Has(req[r].check.held, "access_token")
                                => log[i].val # req[r].check.held["access_token"]

\* C14 witness: after a proactive and a reactive refresh the retried call is
\* in flight with the token of the second refresh.
C14_Witness ==
    \E r \in Requests :
        /\ InWrapper(r)
        /\ req[r].pc = "requests_get" /\ req[r].stage = "retry"
        /\ Sets(r) = 2
        /\ req[r].bearer_token = session["oauth_credentials"]["access_token"]
        /\ req[r].bearer_token = req[r].log[6].val
        /\ req[r].bearer_token # req[r].log[3].val

\* C15 as stated: the session changes only in a logout, or in the two stores
\* of a successful exchange, one whose body has an access_token, a
\* refresh_token and a numeric expires_in, made by the authorization route
\* or inside a wrapper invocation; the token request and the protected call
\* leave it as it is.
C15_AsStated ==
    [][session' # session
       => \E r \in Requests :
              \/ req[r].pc = "idle" /\ req'[r].route = "logout"
              \/ /\ req[r].pc \in {"set_expiration", "set_credentials"}
                 /\ req'[r].pc # req[r].pc
                 /\ req[r].route = "box_auth" \/ InWrapper(r)
                 /\ req[r].answer = "complete"
      ]_vars

\* C16: every invocation of the wrapper that is entered completes, with a
\* result or with a failure raised, whatever the provider answers.
C16_WrapperCompletes ==
    \A r \in Requests :
        (req[r].route = "box_folder" /\ req[r].pc = "checked_auth")
        ~> (req[r].route = "box_folder" /\ req[r].pc = "done")

\* C16 witness: an invocation with both refreshes, whose protected call was
\* answered 401 both times, has completed.
C16_Witness ==
    \E r \in Requests :
        /\ InWrapper(r)
        /\ req[r].pc = "done"
        /\ Ops(r) = RefreshCallRefreshCall
        /\ req[r].log[4].val = Unauthorized
        /\ req[r].log[8].val = Unauthorized

\* C17: a token exchange whose body has no expires_in changes nothing in the
\* session: neither the arrival of the body nor the attempt to store it
\* writes a field, the attempt ends in the TypeError, and the handler that
\* has ended so leaves the session as it found it: empty after a failed
\* authorization of an unauthenticated session, and with the credential set
\* and expiry instant held before after a failed refresh.
C17_FailedExchangeKeepsSession ==
    [][\A r \in Requests :
           /\ (req[r].pc = "get_token" /\ req'[r].answer = "no_expiry")
              => UNCHANGED <<session, expiration_of>>
           /\ (/\ req[r].pc = "set_expiration" /\ req[r].answer = "no_expiry"
               /\ req'[r] # req[r])
              => /\ UNCHANGED <<session, expiration_of>>
                 /\ req'[r].pc = "done" /\ req'[r].outcome = "TypeError"
                 /\ (req[r].route = "box_auth" /\ ~ req[r].had_credentials)
                    => session' = EmptyDict
                 /\ (InWrapper(r) /\ Sets(r) = 0)
                    => /\ session'["oauth_credentials"] = req[r].check.held
                       /\ session'["oauth_expiration"] = req[r].check.expiration
                 /\ (InWrapper(r) /\ Sets(r) = 1)
                    => /\ session'["oauth_credentials"]["issue"].id
                            = req[r].log[2].val
                       /\ expiration_of' = req[r].log[2].val
      ]_vars

\* C17 witness: a refresh whose body had no expires_in has ended in the
\* TypeError and the session holds the complete credential set and the expiry
\* instant it held when the request came in.
C17_Witness ==
    \E r \in Requests :
        /\ InWrapper(r) /\ req[r].check.complete
        /\ req[r].answer = "no_expiry"
        /\ ~ Has(req[r].oauth_response, "expires_in")
        /\ req[r].pc = "done" /\ req[r].outcome = "TypeError"
        /\ session["oauth_credentials"] = req[r].check.held
        /\ session["oauth_expiration"] = req[r].check.expiration

\* the refresh tokens presented so far are all different
NoneTwice(tokens) ==
    \A i, j \in 1..Len(tokens) : tokens[i] = tokens[j] => i = j

\* the refresh token of this credential set was issued with it, and is not
\* one the provider returned unchanged
NewlyIssued(credentials) ==
    credentials["refresh_token"] = 0 - credentials["issue"].id

\* C18 as stated: while every exchange of the session has succeeded, no
\* refresh token has been presented to the provider twice.
C18_AsStated == clean => NoneTwice(presented)

\* C18 amended: a refresh token is presented only by the refresh step of a
\* wrapper invocation, and it is the refresh token of the credential set the
\* session holds at that step; the reactive refresh of an invocation that
\* refreshed proactively presents the refresh token of the body the proactive
\* refresh received and stored; and while every exchange has succeeded, a
\* refresh token that was newly issued with the stored credential set has
\* not been presented before.
C18_PresentsStoredRefreshToken ==
    [][presented' # presented
       => \E r \in Requests :
              LET stored == session["oauth_credentials"]
              IN /\ InWrapper(r)
                 /\ req[r].pc = "refresh" /\ req'[r].pc = "get_token"
                 /\ presented' = Append(presented, stored["refresh_token"])
                 /\ req'[r].kwargs = [grant_type |-> "refresh_token",
                                      refresh_token |-> stored["refresh_token"]]
                 /\ (req[r].stage = "retry" /\ Sets(r) = 1)
                    => /\ stored["issue"].id = req[r].log[2].val
                       /\ stored["refresh_token"]
                            = req[r].oauth_response["refresh_token"]
                 /\ (clean /\ NewlyIssued(stored))
                    => \A i \in 1..Len(presented) :
                           presented[i] # stored["refresh_token"]
      ]_vars

\* C18 witness: every exchange has succeeded, and the reactive refresh of an
\* invocation is presenting the refresh token the proactive refresh of the
\* same invocation was issued, after that one presented the authorization's.
C18_Witness ==
    \E r \in Requests :
        /\ InWrapper(r) /\ req[r].stage = "retry"
        /\ req[r].pc = "get_token"
        /\ clean
        /\ NewlyIssued(session["oauth_credentials"])
        /\ presented = <<0 - 1, 0 - 2>>
        /\ req[r].kwargs["refresh_token"]
             = session["oauth_credentials"]["refresh_token"]
        /\ session["oauth_credentials"]["issue"].id = req[r].log[2].val

====
